---- MODULE Spec2Model ----
(***************************************************************************)
(* A model of bevy_snake (src/src/main.rs): the entity/component store,    *)
(* the SnakeSegments and LastTailPosition resources, the Growth and        *)
(* Game-Over event queues, the deferred command buffers, and the systems   *)
(* of the Update stage run in every order the schedule of main() allows.   *)
(*                                                                         *)
(* Time is counted in units of 0.1 s, the step of the movement timer.      *)
(***************************************************************************)
EXTENDS Integers, Sequences, FiniteSets, TLC

VARIABLES
    SnakeHead,          \* component storage: head entity -> its direction
    SnakeSegment,       \* set of live entities tagged SnakeSegment
    Food,               \* set of live entities tagged Food
    Position,           \* component storage: live entity -> [x, y]
    segments,           \* resource SnakeSegments: ordered entity list
    last_tail_position, \* resource LastTailPosition: <<>> (None) or <<p>> (Some)
    GrowthEvents,       \* Events<GrowthEvent> and the reader of snake_growth
    GameOverEvents,     \* Events<GameOverEvent> and the reader of game_over
    commands,           \* spawns and despawns queued and not yet applied
    frame,              \* number of frames begun
    phase,              \* "systems" inside a pass, "applied" after its commands
    should_run,         \* system -> whether it runs in the current pass
    ran,                \* the systems that have run in the current pass
    accumulator,        \* FixedTimestep accumulators of the two timers
    now,                \* time elapsed since start
    segment_positions,  \* the pre-move snapshot of the last snake_movement
    keyboard_input,     \* the key snapshot last read by the input step (SpecInput)
    panicked,           \* "" or the system whose unwrap/single aborted
    history             \* per-frame and per-pass bookkeeping for the properties

vars == <<SnakeHead, SnakeSegment, Food, Position, segments, last_tail_position,
          GrowthEvents, GameOverEvents, commands, frame, phase,
          should_run, ran, accumulator, now, segment_positions,
          keyboard_input, panicked, history>>

-----------------------------------------------------------------------------
(* Program constants *)

ARENA_WIDTH == 30
ARENA_HEIGHT == 30

\* FixedTimestep::step(0.1) and FixedTimestep::step(1.0), in units of 0.1 s
MovementStep == 1
FoodStep == 10

(* Bounds of the model *)

\* total time explored, in units of 0.1 s
MaxTime == 21
\* number of frames explored
MaxFrames == 4
\* fastrand::f32() is drawn as r / RandDenom, r in RandSamples
RandDenom == 30
\* frame lengths: a frame shorter than the movement step (counted as 0), one
\* movement step, one movement step short of the food step, one food step
Deltas == {0, MovementStep, FoodStep - MovementStep, FoodStep}

RandSamples == {r \in {3, 12} : r < RandDenom}

Pos(x, y) == [x |-> x, y |-> y]

Directions == {"Left", "Up", "Right", "Down"}

KeyCodes == {"Left", "Right", "Down", "Up"}

opposite(d) ==
    CASE d = "Left" -> "Right"
      [] d = "Up" -> "Down"
      [] d = "Right" -> "Left"
      [] d = "Down" -> "Up"

Systems == {"snake_movement_input", "game_over", "snake_movement",
            "snake_eating", "snake_growth", "food_spawner"}

-----------------------------------------------------------------------------
(* Option<Position> *)

None == <<>>

Some(p) == <<p>>

(* The entity store *)

\* the entities a Query<&Position, With<SnakeSegment>> can reach
Positioned(tag) == tag \cap DOMAIN Position

\* Commands::spawn_bundle(..).insert(..): queued, the id is reserved at once
SpawnCmd(e, tag, p) == [op |-> "spawn", e |-> e, tag |-> tag, pos |-> p]

\* Commands::entity(e).despawn(): queued
DespawnCmd(e) == [op |-> "despawn", e |-> e, tag |-> "-", pos |-> Pos(0, 0)]

\* spawn_segment: the command that spawns a body segment at position p
spawn_segment(e, p) == SpawnCmd(e, "SnakeSegment", p)

\* spawn_snake: head at (3,3) facing Right, one body segment at (3,2); the
\* list is replaced at once, the entities appear when the commands are applied
spawn_snake_commands(h, b) ==
    {SpawnCmd(h, "SnakeHead", Pos(3, 3)), spawn_segment(b, Pos(3, 2))}

spawn_snake_segments(h, b) == <<h, b>>

\* every entity id that is live, reserved by a queued command or still
\* referred to; the allocator never hands out one of these
Used ==
    DOMAIN Position \cup DOMAIN SnakeHead \cup SnakeSegment \cup Food
        \cup {c.e : c \in commands}
        \cup {segments[i] : i \in 1..Len(segments)}
        \cup history.eaten \cup history.spawned_food

\* Entities::reserve_entity: an id that is in use nowhere
NewEntity(used) ==
    CHOOSE e \in 1..(Cardinality(used) + 1) :
        e \notin used /\ \A f \in 1..(e - 1) : f \in used

(* Events<T> with one reader: the two buffers hold `older` and `newer`      *)
(* events; the reader has not yet seen the last `unread` of them.           *)

NoEvents == [older |-> 0, newer |-> 0, unread |-> 0]

\* EventWriter::send, n times
Send(ev, n) == [ev EXCEPT !.newer = @ + n, !.unread = @ + n]

\* Events::update_system, once per frame: the older buffer is dropped
UpdateEvents(ev) ==
    [older |-> ev.newer, newer |-> 0,
     unread |-> IF ev.unread < ev.newer THEN ev.unread ELSE ev.newer]

\* reader.iter().next().is_some()
HasNext(ev) == ev.unread > 0

\* reader.iter().next(): only the event taken is marked as read
TakeNext(ev) == IF ev.unread > 0 THEN [ev EXCEPT !.unread = @ - 1] ELSE ev

(* Commands applied at the end of a pass *)

Despawned(cmds) == {c.e : c \in {d \in cmds : d.op = "despawn"}}

Spawned(cmds, tags) == {c.e : c \in {d \in cmds : d.op = "spawn" /\ d.tag \in tags}}

SpawnOf(cmds, e) == CHOOSE c \in cmds : c.op = "spawn" /\ c.e = e

ApplyTag(live, cmds, tags) == (live \ Despawned(cmds)) \cup Spawned(cmds, tags)

ApplyPosition(P, cmds) ==
    [e \in (DOMAIN P \ Despawned(cmds)) \cup Spawned(cmds, {"SnakeHead", "SnakeSegment", "Food"}) |->
        IF e \in DOMAIN P THEN P[e] ELSE SpawnOf(cmds, e).pos]

ApplySnakeHead(H, cmds) ==
    [e \in (DOMAIN H \ Despawned(cmds)) \cup Spawned(cmds, {"SnakeHead"}) |->
        IF e \in DOMAIN H THEN H[e] ELSE "Right"]

\* bookkeeping that the program does not keep:
\*   reset          game_over reset the game in the current pass
\*   destroyed_food the number of Food entities that reset queued for despawn
\*   spawned_food   the Food entities food_spawner created in the current frame
\*   growth_sent    the number of Growth events sent in the current tick
\*   matched        the Food entities snake_eating matched in the current tick
\*   eaten          the live Food entities matched in an earlier tick
\*   eaten_twice    snake_eating matched a Food entity of `eaten` again
\*   moved_dir      the direction the last movement step of this play session
\*                  used, "" before the session's first movement step
\*   turns          the number of input steps (counted up to 2) that changed
\*                  the direction since the last movement step
NoHistory == [reset |-> FALSE, destroyed_food |-> 0, spawned_food |-> {},
              eaten |-> {}, eaten_twice |-> FALSE, growth_sent |-> 0,
              matched |-> {}, moved_dir |-> "", turns |-> 0]

Init ==
    /\ SnakeHead = ApplySnakeHead(<<>>, spawn_snake_commands(1, 2))
    /\ SnakeSegment = ApplyTag({}, spawn_snake_commands(1, 2), {"SnakeHead", "SnakeSegment"})
    /\ Food = {}
    /\ Position = ApplyPosition(<<>>, spawn_snake_commands(1, 2))
    /\ segments = spawn_snake_segments(1, 2)
    /\ last_tail_position = None
    /\ GrowthEvents = NoEvents
    /\ GameOverEvents = NoEvents
    /\ commands = {}
    /\ frame = 0
    /\ phase = "applied"
    /\ should_run = [s \in Systems |-> FALSE]
    /\ ran = {}
    /\ accumulator = [movement |-> 0, food |-> 0]
    /\ now = 0
    /\ segment_positions = <<>>
    /\ keyboard_input = {}
    /\ panicked = ""
    /\ history = NoHistory

-----------------------------------------------------------------------------
(* The schedule of main(): the ordering constraints between the systems *)

\* mutant: snake_growth is left without its .after(snake_eating)
After_GrowthUnordered(s) ==
    CASE s = "snake_movement" -> {"snake_movement_input"}
      [] s = "game_over" -> {"snake_movement"}
      [] s = "snake_eating" -> {"snake_movement"}
      [] OTHER -> {}

\* .before(snake_movement), .after(snake_movement), .after(snake_eating)
After(s) ==
    CASE s = "snake_movement" -> {"snake_movement_input"}
      [] s = "game_over" -> {"snake_movement"}
      [] s = "snake_eating" -> {"snake_movement"}
      [] s = "snake_growth" -> {"snake_eating"}
      [] OTHER -> {}

\* the systems under each FixedTimestep run criteria; the others have none
TimerSystems(t) ==
    IF t = "movement" THEN {"snake_movement", "snake_eating", "snake_growth"}
    ELSE {"food_spawner"}

Step(t) == IF t = "movement" THEN MovementStep ELSE FoodStep

Timers == {"movement", "food"}

\* a system may start once every system it is ordered after has finished
\* or is skipped in this pass
CanRun(s) ==
    /\ phase = "systems"
    /\ panicked = ""
    /\ should_run[s]
    /\ s \notin ran
    /\ \A d \in After(s) : d \in ran \/ ~should_run[d]

Finish(s) == ran' = ran \cup {s}

\* a failed Query::single or Option::unwrap aborts the program
Panic(call) ==
    /\ panicked' = call
    /\ UNCHANGED <<SnakeHead, SnakeSegment, Food, Position, segments,
                   last_tail_position, GrowthEvents, GameOverEvents, commands,
                   frame, phase, should_run, ran, accumulator, now,
                   segment_positions, keyboard_input, history>>

-----------------------------------------------------------------------------
(* The systems *)

\* mutant: Up is tested before Down
RequestedDirection_UpBeforeDown(keys, current) ==
    IF "Left" \in keys THEN "Left"
    ELSE IF "Right" \in keys THEN "Right"
    ELSE IF "Up" \in keys THEN "Up"
    ELSE IF "Down" \in keys THEN "Down"
    ELSE current

\* the first held key in the order Left, Right, Down, Up, else the current one
RequestedDirection(keys, current) ==
    IF "Left" \in keys THEN "Left"
    ELSE IF "Right" \in keys THEN "Right"
    ELSE IF "Down" \in keys THEN "Down"
    ELSE IF "Up" \in keys THEN "Up"
    ELSE current

\* mutant: the request is taken without the reversal filter
NextDirection_Unfiltered(keys, current) == RequestedDirection(keys, current)

NextDirection(keys, current) ==
    IF RequestedDirection(keys, current) # opposite(current)
    THEN RequestedDirection(keys, current)
    ELSE current

\* Query::single / single_mut: the one entity of the query
TheHead == CHOOSE e \in DOMAIN SnakeHead : TRUE

\* the system under any key snapshot; the snapshot is kept in keyboard_input
\* only when `observe` asks for it
MovementInput(observe) ==
    /\ CanRun("snake_movement_input")
    /\ \E keys \in SUBSET KeyCodes :
        IF Cardinality(DOMAIN SnakeHead) # 1
        THEN Panic("single")
        ELSE /\ SnakeHead' = [SnakeHead EXCEPT ![TheHead] = NextDirection(keys, @)]
             /\ keyboard_input' = IF observe THEN keys ELSE keyboard_input
             /\ Finish("snake_movement_input")
             /\ history' = [history EXCEPT !.turns =
                    IF NextDirection(keys, SnakeHead[TheHead]) = SnakeHead[TheHead]
                    THEN @ ELSE IF @ = 0 THEN 1 ELSE 2]
             /\ UNCHANGED <<SnakeSegment, Food, Position, segments,
                            last_tail_position, GrowthEvents, GameOverEvents,
                            commands, frame, phase, should_run,
                            accumulator, now, segment_positions, panicked>>

snake_movement_input == MovementInput(FALSE)

\* one unit step in direction d
StepHead(p, d) ==
    CASE d = "Left" -> Pos(p.x - 1, p.y)
      [] d = "Right" -> Pos(p.x + 1, p.y)
      [] d = "Down" -> Pos(p.x, p.y - 1)
      [] d = "Up" -> Pos(p.x, p.y + 1)

\* the casts to u32 are reached only with x >= 0 and y >= 0
OutOfArena(p) ==
    \/ p.x < 0
    \/ p.y < 0
    \/ p.x >= ARENA_WIDTH
    \/ p.y >= ARENA_HEIGHT

Contains(seq, v) == \E i \in 1..Len(seq) : seq[i] = v

\* mutant: the cell the tail is about to leave does not count as a collision
IsGameOver_SkipTail(snapshot, p) ==
    OutOfArena(p) \/ Contains(SubSeq(snapshot, 1, Len(snapshot) - 1), p)

IsGameOver(snapshot, p) == OutOfArena(p) \/ Contains(snapshot, p)

\* mutant: the shift copies the positions already moved, front to back
ShiftSegments_InPlace(P, segs, snapshot, head, p) ==
    [e \in DOMAIN P |->
        IF e = head \/ \E i \in 1..(Len(segs) - 1) : segs[i + 1] = e
        THEN p ELSE P[e]]

\* segment_positions.iter().zip(segments.iter().skip(1)): segment i + 1 takes
\* the pre-move position of segment i; written after the head's own move
ShiftSegments(P, segs, snapshot, head, p) ==
    [e \in DOMAIN P |->
        IF \E i \in 1..(Len(segs) - 1) : segs[i + 1] = e
        THEN snapshot[CHOOSE i \in 1..(Len(segs) - 1) :
                        /\ segs[i + 1] = e
                        /\ \A j \in (i + 1)..(Len(segs) - 1) : segs[j + 1] # e]
        ELSE IF e = head THEN p
        ELSE P[e]]

\* mutant: the movement step records no tail position
RecordTail_Nothing(snapshot) == None

\* mutant: the first position of the snapshot is recorded instead of the last
RecordTail_First(snapshot) == Some(snapshot[1])

\* LastTailPosition(Some(*segment_positions.last().unwrap()))
RecordTail(snapshot) == Some(snapshot[Len(snapshot)])

snake_movement ==
    /\ CanRun("snake_movement")
    /\ IF Cardinality(DOMAIN SnakeHead) # 1
       THEN Panic("single")
       ELSE IF \/ \E i \in 1..Len(segments) : segments[i] \notin Positioned(SnakeSegment)
               \/ TheHead \notin Positioned(SnakeSegment)
               \/ segments = <<>>
       THEN Panic("unwrap")
       ELSE LET snapshot == [i \in 1..Len(segments) |-> Position[segments[i]]]
                head_position == StepHead(Position[TheHead], SnakeHead[TheHead])
            IN /\ segment_positions' = snapshot
               /\ GameOverEvents' =
                    IF IsGameOver(snapshot, head_position)
                    THEN Send(GameOverEvents, 1)
                    ELSE GameOverEvents
               /\ Position' = ShiftSegments(Position, segments, snapshot,
                                            TheHead, head_position)
               /\ last_tail_position' = RecordTail(snapshot)
               /\ Finish("snake_movement")
               /\ history' = [history EXCEPT !.growth_sent = 0, !.matched = {},
                                             !.moved_dir = SnakeHead[TheHead],
                                             !.turns = 0]
               /\ UNCHANGED <<SnakeHead, SnakeSegment, Food, segments,
                              GrowthEvents, commands, frame, phase,
                              should_run, accumulator, now, keyboard_input,
                              panicked>>

\* mutant: a Food entity matches when only its x equals the head's
FoodAt_SameColumn(p) == {e \in Positioned(Food) : Position[e].x = p.x}

\* the Food entities on the head's cell
FoodAt(p) == {e \in Positioned(Food) : Position[e] = p}

snake_eating ==
    /\ CanRun("snake_eating")
    /\ IF Cardinality(Positioned(DOMAIN SnakeHead)) # 1
       THEN Panic("single")
       ELSE LET head_pos == Position[TheHead]
                eaten == FoodAt(head_pos)
            IN /\ commands' = commands \cup {DespawnCmd(e) : e \in eaten}
               /\ GrowthEvents' = Send(GrowthEvents, Cardinality(eaten))
               /\ Finish("snake_eating")
               /\ history' = [history EXCEPT
                                !.growth_sent = Cardinality(eaten),
                                !.matched = eaten,
                                !.eaten = @ \cup eaten,
                                !.eaten_twice = @ \/ (eaten \cap history.eaten # {})]
               /\ UNCHANGED <<SnakeHead, SnakeSegment, Food, Position, segments,
                              last_tail_position, GameOverEvents, frame,
                              phase, should_run, accumulator, now,
                              segment_positions, keyboard_input, panicked>>

snake_growth ==
    /\ CanRun("snake_growth")
    /\ IF ~HasNext(GrowthEvents)
       THEN /\ Finish("snake_growth")
            /\ UNCHANGED <<SnakeHead, SnakeSegment, Food, Position, segments,
                           last_tail_position, GrowthEvents, GameOverEvents,
                           commands, frame, phase, should_run,
                           accumulator, now, segment_positions,
                           keyboard_input, panicked, history>>
       ELSE IF last_tail_position = None
       THEN Panic("unwrap")
       ELSE /\ GrowthEvents' = TakeNext(GrowthEvents)
            /\ segments' = Append(segments, NewEntity(Used))
            /\ commands' = commands \cup
                            {spawn_segment(NewEntity(Used), last_tail_position[1])}
            /\ Finish("snake_growth")
            /\ UNCHANGED <<SnakeHead, SnakeSegment, Food, Position,
                           last_tail_position, GameOverEvents, frame, phase,
                           should_run, accumulator, now, segment_positions,
                           keyboard_input, panicked, history>>

\* mutant: the coordinate is centred on the arena, as the screen's are
FoodCoord_Centred(r, extent) == (r * extent) \div RandDenom - extent \div 2

\* (fastrand::f32() * extent as f32) as i32, with fastrand::f32() = r / RandDenom
FoodCoord(r, extent) == (r * extent) \div RandDenom

food_spawner ==
    /\ CanRun("food_spawner")
    /\ \E rx \in RandSamples, ry \in RandSamples :
        /\ commands' = commands \cup
                        {SpawnCmd(NewEntity(Used), "Food",
                                  Pos(FoodCoord(rx, ARENA_WIDTH),
                                      FoodCoord(ry, ARENA_HEIGHT)))}
        /\ history' = [history EXCEPT !.spawned_food = @ \cup {NewEntity(Used)}]
    /\ Finish("food_spawner")
    /\ UNCHANGED <<SnakeHead, SnakeSegment, Food, Position, segments,
                   last_tail_position, GrowthEvents, GameOverEvents, frame, phase,
                   should_run, accumulator, now, segment_positions,
                   keyboard_input, panicked>>

\* mutant: the reset leaves the Food entities alone
ResetDespawns_SegmentsOnly == SnakeSegment

\* mutant: the reset leaves the old snake alone
ResetDespawns_FoodOnly == Food

\* food.iter().chain(segments.iter()): every live Food and SnakeSegment entity
ResetDespawns == Food \cup SnakeSegment

game_over ==
    /\ CanRun("game_over")
    /\ IF HasNext(GameOverEvents)
       THEN /\ GameOverEvents' = TakeNext(GameOverEvents)
            /\ commands' = commands
                            \cup {DespawnCmd(e) : e \in ResetDespawns}
                            \cup spawn_snake_commands(NewEntity(Used),
                                    NewEntity(Used \cup {NewEntity(Used)}))
            /\ segments' = spawn_snake_segments(NewEntity(Used),
                                    NewEntity(Used \cup {NewEntity(Used)}))
            /\ history' = [history EXCEPT !.reset = TRUE,
                                          !.destroyed_food = Cardinality(Food),
                                          !.moved_dir = ""]
       ELSE UNCHANGED <<GameOverEvents, commands, segments, history>>
    /\ Finish("game_over")
    /\ UNCHANGED <<SnakeHead, SnakeSegment, Food, Position, last_tail_position,
                   GrowthEvents, frame, phase, should_run, accumulator, now,
                   segment_positions, keyboard_input, panicked>>

-----------------------------------------------------------------------------
(* The frame loop of the Update stage *)

\* FixedTimestep::update: the accumulator after it has taken one step, if due
Due(acc, t) == acc[t] >= Step(t)

Consume(acc) == [t \in Timers |-> IF Due(acc, t) THEN acc[t] - Step(t) ELSE acc[t]]

\* the timers whose criteria said YesAndCheckAgain in the pass just run
TimerRan(t) == \E s \in TimerSystems(t) : should_run[s]

\* a criteria that ran is checked again after the pass; one that said No is not
MorePasses == \E t \in Timers : TimerRan(t) /\ Due(accumulator, t)

\* a new frame: the event buffers are swapped, the timers take the frame's
\* length, and every system without run criteria runs in the first pass
Frame(lengths) ==
    /\ phase = "applied"
    /\ panicked = ""
    /\ ~MorePasses
    /\ frame < MaxFrames
    /\ frame' = frame + 1
    /\ \E delta \in lengths :
        /\ now + delta <= MaxTime
        /\ now' = now + delta
        /\ LET acc == [t \in Timers |-> accumulator[t] + delta]
           IN /\ accumulator' = Consume(acc)
              /\ should_run' = [s \in Systems |->
                    IF \E t \in Timers : s \in TimerSystems(t)
                    THEN \E t \in Timers : s \in TimerSystems(t) /\ Due(acc, t)
                    ELSE TRUE]
    /\ GrowthEvents' = UpdateEvents(GrowthEvents)
    /\ GameOverEvents' = UpdateEvents(GameOverEvents)
    /\ phase' = "systems"
    /\ ran' = {}
    /\ history' = [history EXCEPT !.reset = FALSE, !.destroyed_food = 0,
                                  !.spawned_food = {}]
    /\ UNCHANGED <<SnakeHead, SnakeSegment, Food, Position, segments,
                   last_tail_position, commands, segment_positions,
                   keyboard_input, panicked>>

BeginFrame == Frame(Deltas)

\* a further pass of the same frame: only the systems whose timer is still due
NextPass ==
    /\ phase = "applied"
    /\ panicked = ""
    /\ MorePasses
    /\ accumulator' = [t \in Timers |->
            IF TimerRan(t) /\ Due(accumulator, t)
            THEN accumulator[t] - Step(t) ELSE accumulator[t]]
    /\ should_run' = [s \in Systems |->
            \E t \in Timers : s \in TimerSystems(t) /\ TimerRan(t) /\ Due(accumulator, t)]
    /\ phase' = "systems"
    /\ ran' = {}
    /\ history' = [history EXCEPT !.reset = FALSE, !.destroyed_food = 0]
    /\ UNCHANGED <<SnakeHead, SnakeSegment, Food, Position, segments,
                   last_tail_position, GrowthEvents, GameOverEvents, commands,
                   frame, now, segment_positions, keyboard_input,
                   panicked>>

\* the end of a pass: every system that ran has its command buffer applied
ApplyBuffers ==
    /\ phase = "systems"
    /\ panicked = ""
    /\ \A s \in Systems : should_run[s] => s \in ran
    /\ SnakeHead' = ApplySnakeHead(SnakeHead, commands)
    /\ SnakeSegment' = ApplyTag(SnakeSegment, commands, {"SnakeHead", "SnakeSegment"})
    /\ Food' = ApplyTag(Food, commands, {"Food"})
    /\ Position' = ApplyPosition(Position, commands)
    /\ commands' = {}
    /\ phase' = "applied"
    /\ ran' = {}
    /\ history' = [history EXCEPT !.eaten = @ \ Despawned(commands)]
    /\ UNCHANGED <<segments, last_tail_position, GrowthEvents, GameOverEvents,
                   frame, should_run, accumulator, now,
                   segment_positions, keyboard_input, panicked>>

Next ==
    \/ BeginFrame
    \/ NextPass
    \/ ApplyBuffers
    \/ snake_movement_input
    \/ snake_movement
    \/ snake_eating
    \/ snake_growth
    \/ food_spawner
    \/ game_over

Spec == Init /\ [][Next]_vars

\* frames shorter than a movement step, the key snapshot of each kept: the
\* specification for the properties of the input step
NextInput ==
    \/ Frame({0})
    \/ MovementInput(TRUE)
    \/ game_over
    \/ ApplyBuffers

SpecInput == Init /\ [][NextInput]_vars

-----------------------------------------------------------------------------
(* Properties *)

\* the step is a run of system s that did not abort
Ran(s) == s \notin ran /\ s \in ran'

\* the ordered segment positions before a step
Before == [i \in 1..Len(segments) |-> Position[segments[i]]]

\* the head one unit step on: Left x-1, Right x+1, Up y+1, Down y-1
Stepped(p, d) ==
    [x |-> p.x + (IF d = "Right" THEN 1 ELSE IF d = "Left" THEN -1 ELSE 0),
     y |-> p.y + (IF d = "Up" THEN 1 ELSE IF d = "Down" THEN -1 ELSE 0)]

\* C1: a movement tick puts the head one unit step on in its direction, puts
\* segment i where segment i-1 was, keeps the number of segments, and
\* records the pre-move tail position in LastTailPosition.
C1_MovementShift ==
    [][Ran("snake_movement") =>
        /\ segments' = segments
        /\ Position'[segments[1]] = Stepped(Before[1], SnakeHead[segments[1]])
        /\ \A i \in 2..Len(segments) : Position'[segments[i]] = Before[i - 1]
        /\ last_tail_position' = <<Before[Len(segments)]>>
        /\ DOMAIN Position' = DOMAIN Position]_vars

\* a snake of three or more segments has just moved
C1_Witness ==
    /\ "snake_movement" \in ran
    /\ "game_over" \notin ran
    /\ "snake_growth" \notin ran
    /\ Len(segments) >= 3
    /\ Len(segment_positions) = Len(segments)
    /\ Position[segments[3]] = segment_positions[2]
    /\ Position[segments[3]] # Position[segments[2]]

\* C2: a movement tick sends one Game-Over event exactly when the new head
\* position is outside [0,30)x[0,30) or is the pre-move position of some
\* segment, the tail included; no other step sends one.
C2_GameOverIff ==
    [][/\ GameOverEvents'.newer > GameOverEvents.newer => Ran("snake_movement")
       /\ Ran("snake_movement") =>
            LET head == Stepped(Before[1], SnakeHead[segments[1]])
                over == \/ head.x \notin 0..29
                        \/ head.y \notin 0..29
                        \/ \E i \in 1..Len(segments) : Before[i] = head
            IN IF over
               THEN /\ GameOverEvents'.newer = GameOverEvents.newer + 1
                    /\ GameOverEvents'.unread = GameOverEvents.unread + 1
               ELSE GameOverEvents' = GameOverEvents]_vars

\* the head has just moved onto the cell the tail held before the move
C2_Witness ==
    /\ "snake_movement" \in ran
    /\ "game_over" \notin ran
    /\ Len(segment_positions) = Len(segments)
    /\ Position[segments[1]] = segment_positions[Len(segment_positions)]
    /\ GameOverEvents.unread >= 1

\* C3: one run of the input step never turns the head to the opposite of its
\* direction D: a request for opposite(D) leaves D, any other request is
\* taken, and with no key held the direction stays D.
C3_NoReversal ==
    [][Ran("snake_movement_input") =>
        LET D == SnakeHead[TheHead]
            R == RequestedDirection(keyboard_input', D)
        IN /\ SnakeHead'[TheHead] # opposite(D)
           /\ R = opposite(D) => SnakeHead'[TheHead] = D
           /\ R # opposite(D) => SnakeHead'[TheHead] = R
           /\ keyboard_input' = {} => SnakeHead'[TheHead] = D]_vars

\* the input step has just run with the opposite direction requested
C3_Witness ==
    /\ "snake_movement_input" \in ran
    /\ keyboard_input # {}
    /\ RequestedDirection(keyboard_input, SnakeHead[TheHead])
            = opposite(SnakeHead[TheHead])

\* the snake is exactly the initial spawn and no other segment entity exists
InitialSpawn ==
    /\ Len(segments) = 2
    /\ SnakeSegment = {segments[1], segments[2]}
    /\ DOMAIN SnakeHead = {segments[1]}
    /\ SnakeHead[segments[1]] = "Right"
    /\ Position[segments[1]] = Pos(3, 3)
    /\ Position[segments[2]] = Pos(3, 2)

\* C4: once the commands of a pass in which game_over observed a Game-Over
\* event are applied, the snake is exactly the initial spawn: two listed
\* segments, head at (3,3) facing Right, body at (3,2), no other segment.
C4_ResetIsInitialSpawn == phase = "applied" /\ history.reset => InitialSpawn

\* C5, as stated: once the commands of a pass with a reset are applied, no
\* Food entity exists.
C5_NoFoodAfterReset == phase = "applied" /\ history.reset => Food = {}

\* C5, amended: once the commands of a pass with a reset are applied, the
\* only Food entities are those food_spawner created in that frame; every
\* Food entity that existed when game_over ran is gone.
C5_OnlyNewFoodAfterReset ==
    phase = "applied" /\ history.reset => Food \subseteq history.spawned_food

\* a reset destroyed a Food entity in the frame in which another was spawned
C5_Witness ==
    /\ phase = "applied"
    /\ history.reset
    /\ history.destroyed_food >= 1
    /\ Food # {}

\* C6: in a tick with one or more Growth events, snake_growth appends one
\* segment to the list, to be spawned at the pre-move tail position that
\* tick's movement recorded, and moves no existing segment.
C6_GrowthAppendsOne ==
    [][Ran("snake_growth") /\ history.growth_sent >= 1 =>
        /\ Len(segments') = Len(segments) + 1
        /\ SubSeq(segments', 1, Len(segments)) = segments
        /\ segments'[Len(segments')] \notin Used
        /\ commands' = commands \cup
                [op : {"spawn"}, e : {segments'[Len(segments')]},
                 tag : {"SnakeSegment"},
                 pos : {segment_positions[Len(segment_positions)]}]
        /\ Position' = Position
        /\ SnakeSegment' = SnakeSegment]_vars

\* snake_growth has just run in a tick that sent two Growth events
C6_Witness ==
    /\ "snake_growth" \in ran
    /\ "game_over" \notin ran
    /\ history.growth_sent >= 2
    /\ Len(segments) = Len(segment_positions) + 1

\* C7: snake_eating queues the despawn of exactly the Food entities on the
\* head's cell and sends one Growth event for each, touching no other
\* entity; the matched entities are gone once the commands are applied, and
\* none is matched in a second tick.
C7_EatingExact ==
    [][/\ Ran("snake_eating") =>
            LET onHead == {e \in Food : Position[e] = Position[TheHead]}
            IN /\ commands' = commands \cup
                    [op : {"despawn"}, e : onHead, tag : {"-"}, pos : {Pos(0, 0)}]
               /\ GrowthEvents'.newer = GrowthEvents.newer + Cardinality(onHead)
               /\ GrowthEvents'.unread = GrowthEvents.unread + Cardinality(onHead)
               /\ onHead \cap history.eaten = {}
               /\ Food' = Food
               /\ Position' = Position
       /\ phase = "systems" /\ phase' = "applied" =>
            /\ history.matched \cap Food' = {}
            /\ history.reset \/ Food \ history.matched \subseteq Food'
       /\ ~history.eaten_twice]_vars

\* snake_eating has just matched a Food entity while another one lives on
C7_Witness ==
    /\ "snake_eating" \in ran
    /\ history.matched # {}
    /\ Food \ history.matched # {}

\* C8: exactly one SnakeHead entity exists whenever a system may query for
\* it, and no Query::single ever aborts.
C8_OneHead ==
    /\ Cardinality(DOMAIN SnakeHead) = 1
    /\ DOMAIN SnakeHead \subseteq DOMAIN Position
    /\ panicked # "single"

\* snake_eating is about to query the head in a pass whose reset is queued
C8_Witness ==
    /\ phase = "systems"
    /\ history.reset
    /\ should_run["snake_eating"]
    /\ "snake_eating" \notin ran

\* C9: a food-spawner tick queues one Food entity with 0 <= x < 30 and
\* 0 <= y < 30 and changes nothing else; the entity appears with that
\* position when the commands are applied.
C9_FoodSpawnerAddsOne ==
    [][/\ Ran("food_spawner") =>
            /\ \E c \in commands' \ commands :
                /\ commands' = commands \cup {c}
                /\ c.op = "spawn"
                /\ c.tag = "Food"
                /\ c.e \notin Used
                /\ c.pos.x \in 0..29
                /\ c.pos.y \in 0..29
            /\ UNCHANGED <<SnakeHead, SnakeSegment, Food, Position, segments,
                           last_tail_position, GrowthEvents, GameOverEvents>>
       /\ phase = "systems" /\ phase' = "applied" =>
            \A c \in commands :
                c.op = "spawn" /\ c.tag = "Food" =>
                    /\ c.e \in Food' \ Food
                    /\ Position'[c.e] = c.pos]_vars

\* a Food entity spawned in this frame shares its cell with another entity
C9_Witness ==
    /\ phase = "applied"
    /\ \E f \in history.spawned_food \cap Food :
        \E e \in (SnakeSegment \cup Food) \ {f} : Position[e] = Position[f]

\* C10: in a pass with a movement tick, game_over runs only after that tick's
\* eating and growth steps.
C10_GameOverAfterGrowth ==
    "game_over" \in ran /\ should_run["snake_movement"] =>
        {"snake_eating", "snake_growth"} \subseteq ran

\* no unwrap or single of the program aborts
NoPanic == panicked = ""

\* C11: in every pass the input step, when it runs, runs before the movement
\* step, and the steps of a movement tick run in the order movement, eating,
\* growth: when eating starts the head is at its post-move position, and when
\* growth starts LastTailPosition and the Growth events of this tick are there.
C11_TickOrder ==
    /\ "snake_movement" \in ran /\ should_run["snake_movement_input"] =>
            "snake_movement_input" \in ran
    /\ "snake_eating" \in ran => "snake_movement" \in ran
    /\ "snake_growth" \in ran => "snake_eating" \in ran
    /\ phase = "systems" /\ panicked = "" /\ "snake_movement" \in ran
            /\ "snake_eating" \notin ran =>
            Position[TheHead] = Stepped(segment_positions[1], SnakeHead[TheHead])
    /\ phase = "systems" /\ panicked = "" /\ "snake_eating" \in ran
            /\ "snake_growth" \notin ran =>
            /\ last_tail_position
                    = Some(segment_positions[Len(segment_positions)])
            /\ GrowthEvents.unread >= history.growth_sent

\* the growth step has run in a first pass, after the input step and after an
\* eating step that sent a Growth event
C11_Witness ==
    /\ {"snake_movement_input", "snake_growth"} \subseteq ran
    /\ history.growth_sent >= 1
    /\ Len(segments) = Len(segment_positions) + 1

\* C12: between two consecutive movement steps at most one input step changes
\* the head's direction.
C12_OneTurnPerTick == history.moved_dir # "" => history.turns <= 1

\* C13: within a play session a movement step never uses the opposite of the
\* direction the preceding movement step used.
C13_NoReversalBetweenTicks ==
    [][Ran("snake_movement") /\ history.moved_dir # "" =>
            SnakeHead[TheHead] # opposite(history.moved_dir)]_vars

C15_GrowsIffEaten ==
    [][Ran("snake_growth") /\ panicked' = "" =>
        /\ ~history.reset /\ ~IsGameOver(segment_positions, Position[TheHead]) =>
                Len(segments') = Len(segments)
                                    + (IF history.growth_sent >= 1 THEN 1 ELSE 0)
        /\ Len(segments') > Len(segments) =>
                GrowthEvents.unread <= history.growth_sent]_vars

\* C16: whenever a Growth event is there for the growth step to consume,
\* LastTailPosition holds a value; the unwrap of snake_growth never aborts.
C16_TailKnownAtGrowth ==
    /\ panicked # "unwrap"
    /\ HasNext(GrowthEvents) => last_tail_position # None

\* the growth step has consumed a Growth event and queued a segment at the
\* position LastTailPosition holds
C16_Witness ==
    /\ "snake_growth" \in ran
    /\ ~history.reset
    /\ Len(segments) = Len(segment_positions) + 1
    /\ last_tail_position # None
    /\ \E c \in commands :
        /\ c.op = "spawn"
        /\ c.tag = "SnakeSegment"
        /\ c.e = segments[Len(segments)]
        /\ c.pos = last_tail_position[1]

C18_ListIsLiveSegments ==
    phase = "applied" /\ ~MorePasses /\ panicked = "" =>
        /\ SnakeSegment = {segments[i] : i \in 1..Len(segments)}
        /\ \A i, j \in 1..Len(segments) : segments[i] = segments[j] => i = j

\* C19: when a movement step begins, the listed snake is a simple connected
\* path: consecutive segments are at Manhattan distance 1 and no two segments
\* are on one cell.
C19_SimplePathAtTickStart ==
    [][Ran("snake_movement") /\ panicked' = "" =>
        /\ \A i \in 1..(Len(segments) - 1) :
            LET dx == Before[i].x - Before[i + 1].x
                dy == Before[i].y - Before[i + 1].y
            IN (IF dx < 0 THEN -dx ELSE dx) + (IF dy < 0 THEN -dy ELSE dy) = 1
        /\ \A i, j \in 1..Len(segments) : Before[i] = Before[j] => i = j]_vars

\* C20: with keys held, the input step requests the first held key in the
\* order Left, Right, Down, Up and tests that key alone against the reversal
\* filter: when it is the opposite of the direction D the direction stays D,
\* whatever other keys are held; otherwise it becomes the direction.
C20_FirstHeldKeyOnly ==
    [][Ran("snake_movement_input") /\ keyboard_input' # {} =>
        LET order == <<"Left", "Right", "Down", "Up">>
            first == order[CHOOSE i \in 1..4 :
                            /\ order[i] \in keyboard_input'
                            /\ \A j \in 1..(i - 1) : order[j] \notin keyboard_input']
            D == SnakeHead[TheHead]
        IN SnakeHead'[TheHead] = IF first = opposite(D) THEN D ELSE first]_vars

\* the input step has just run with the opposite direction held together with
\* a key of lower priority that the filter would let through
C20_Witness ==
    /\ "snake_movement_input" \in ran
    /\ LET D == SnakeHead[TheHead]
       IN /\ opposite(D) \in keyboard_input
          /\ \/ opposite(D) = "Left"
             \/ opposite(D) = "Right" /\ "Left" \notin keyboard_input
          /\ keyboard_input \cap {"Down", "Up"} # {}

====
